---- MODULE Spec2Model ----
(***************************************************************************)
(* Model of src/main.py: the adaptive-threshold anomaly detector, its      *)
(* debounced alert dispatcher, the file-event accumulator and the poll     *)
(* loop, with the on-demand /system_data cycle running on a second thread. *)
(*                                                                         *)
(* Numbers.  The baseline is updated with alpha = 0.1, so after k updates  *)
(* every mean is a multiple of 10^-k and every std a multiple of           *)
(* 1/(2*10^(k+1)) (the seeds have std 0.5).  A value is kept exactly as a  *)
(* record [i |-> integer part, f |-> numerator of the fraction] over the   *)
(* denominator MeanD(k) or StdD(k); the split keeps every intermediate     *)
(* product inside 32 bits.  Python computes in binary floating point; the  *)
(* model computes the exact rational the float approximates.               *)
(*                                                                         *)
(* Time.  now counts whole time units.  Synchronous code (a cycle, a       *)
(* callback run by the event loop) takes less than a unit.                 *)
(***************************************************************************)
EXTENDS Integers, Sequences, FiniteSets, TLC

\* ------------------------------------------------------------------ bounds
MaxCycles == 3        \* cycles the poll loop runs in SpecPoll
MaxEndToEnd == 6      \* cycles the poll loop runs in SpecEndToEnd
MaxConcCycles == 2    \* cycles started in all, over both threads, in SpecConc
MaxTime == 62         \* last instant of SpecDebounce
MaxEvents == 3        \* watcher callbacks between two drains in SpecAcc
MaxFaultCycles == 2   \* cycles the poll loop runs in SpecFault
MaxDriftCycles == 2   \* cycles started in all, over both threads, in SpecDrift
MaxRegime == 5        \* cycles the poll loop runs in SpecRegime
MaxLatchCycles == 2   \* cycles the poll loop runs in SpecLatch
MaxSimCalls == 2      \* calls of simulate_ransomware in SpecLatch
MaxSimFiles == 2      \* files one simulation works through (100 in the source)
MaxRegistryCycles == 1   \* on-demand cycles in SpecRegistry
MaxRegistryTime == 30    \* last instant of SpecRegistry: one keepalive period

\* ------------------------------------------------------- program constants
PING_INTERVAL == 30
COOLDOWN == 60                \* reset_response_flag(60)
FILE_EVENT_THRESHOLD == 30    \* modified/renamed/deleted >= 30
DEV_NUM == 17                 \* 0.85 = 17/20
DEV_DEN == 20

Threads == {"poll", "web"}
Clients == {"c1", "c2"}
Paths == {"A", "B", "C"}

\* ------------------------------------------------- exact fixed-point numbers
RECURSIVE Pow10(_)
Pow10(n) == IF n = 0 THEN 1 ELSE 10 * Pow10(n - 1)

MeanD(k) == Pow10(k)
StdD(k) == 2 * Pow10(k + 1)

FxInt(v) == [i |-> v, f |-> 0]
FxMul(x, c, D) == LET p == c * x.f IN [i |-> c * x.i + (p \div D), f |-> p % D]
FxAddInt(x, v) == [i |-> x.i + v, f |-> x.f]
\* x / 10; the result is over the denominator 10 * D
FxDiv10(x, D) == [i |-> x.i \div 10, f |-> (x.i % 10) * D + x.f]
FxAdd(x, y, D) == LET s == x.f + y.f IN [i |-> x.i + y.i + (s \div D), f |-> s % D]
\* the denominator D becomes m * D
FxScale(x, m) == [i |-> x.i, f |-> m * x.f]
\* |v - x| for an integer v >= 0 and x >= 0
FxAbsDiff(v, x, D) ==
    IF x.i >= v THEN [i |-> x.i - v, f |-> x.f]
    ELSE IF x.f = 0 THEN [i |-> v - x.i, f |-> 0]
    ELSE [i |-> v - x.i - 1, f |-> D - x.f]
FxGT(x, y) == x.i > y.i \/ (x.i = y.i /\ x.f > y.f)
FxGE(x, y) == x = y \/ FxGT(x, y)
FxPos(x) == x.i > 0 \/ (x.i = 0 /\ x.f > 0)

\* ---------------------------------------------------------------- baseline
BaselineKeys == <<"cpu_usage", "memory_usage", "disk_usage", "modified",
                  "renamed", "deleted", "entropy_alerts", "unauth_proc_count",
                  "shadow_copy_flag", "registry_alerts_count", "susp_net_count",
                  "susp_ext_count", "proc_injection", "sys_call_anomaly",
                  "total_net_connections">>
Features == {BaselineKeys[n] : n \in 1..Len(BaselineKeys)}

Seed(m, sTwice) == [mean |-> FxInt(m),
                    std |-> [i |-> sTwice \div 2, f |-> (sTwice % 2) * 10],
                    k |-> 0]

\* baseline_stats as the module sets it; std is given doubled (0.5 -> 1)
SeedBaseline ==
    [key \in Features |->
        CASE key = "cpu_usage" -> Seed(20, 10)
          [] key = "memory_usage" -> Seed(30, 20)
          [] key = "disk_usage" -> Seed(40, 20)
          [] key = "modified" -> Seed(2, 2)
          [] key = "renamed" -> Seed(1, 1)
          [] key = "deleted" -> Seed(1, 1)
          [] key = "entropy_alerts" -> Seed(3, 2)
          [] key = "total_net_connections" -> Seed(50, 40)
          [] OTHER -> Seed(0, 0)]

\* update_entry with the deviation taken from the mean before the update
update_entry_stale_mean(stats, new_value) ==
    LET k == stats.k
        updated_mean == FxDiv10(FxAddInt(FxMul(stats.mean, 9, MeanD(k)), new_value),
                                MeanD(k))
        dev == FxAbsDiff(new_value, FxScale(stats.mean, 10), MeanD(k + 1))
        updated_std == FxAdd(FxDiv10(FxMul(stats.std, 9, StdD(k)), StdD(k)),
                             FxScale(FxDiv10(dev, MeanD(k + 1)), 2),
                             StdD(k + 1))
    IN [mean |-> updated_mean, std |-> updated_std, k |-> k + 1]

\* update_entry with the old mean not scaled by 1 - alpha
update_entry_no_decay(stats, new_value) ==
    LET k == stats.k
        updated_mean == FxAdd(FxScale(stats.mean, 10),
                              FxDiv10(FxInt(new_value), MeanD(k)), MeanD(k + 1))
        dev == FxAbsDiff(new_value, updated_mean, MeanD(k + 1))
        updated_std == FxAdd(FxDiv10(FxMul(stats.std, 9, StdD(k)), StdD(k)),
                             FxScale(FxDiv10(dev, MeanD(k + 1)), 2),
                             StdD(k + 1))
    IN [mean |-> updated_mean, std |-> updated_std, k |-> k + 1]

\* update_entry returning the old mean
update_entry_frozen_mean(stats, new_value) ==
    LET k == stats.k
        updated_mean == FxScale(stats.mean, 10)
        dev == FxAbsDiff(new_value, updated_mean, MeanD(k + 1))
        updated_std == FxAdd(FxDiv10(FxMul(stats.std, 9, StdD(k)), StdD(k)),
                             FxScale(FxDiv10(dev, MeanD(k + 1)), 2),
                             StdD(k + 1))
    IN [mean |-> updated_mean, std |-> updated_std, k |-> k + 1]

\* one iteration of the loop of update_baseline: stats is baseline[key],
\* new_value is new_data[key]
update_entry(stats, new_value) ==
    LET k == stats.k
        updated_mean == FxDiv10(FxAddInt(FxMul(stats.mean, 9, MeanD(k)), new_value),
                                MeanD(k))
        dev == FxAbsDiff(new_value, updated_mean, MeanD(k + 1))
        updated_std == FxAdd(FxDiv10(FxMul(stats.std, 9, StdD(k)), StdD(k)),
                             FxScale(FxDiv10(dev, MeanD(k + 1)), 2),
                             StdD(k + 1))
    IN [mean |-> updated_mean, std |-> updated_std, k |-> k + 1]

\* update_baseline(baseline, new_data, alpha=0.1): a new mapping, the
\* argument is not modified
update_baseline(baseline, new_data) ==
    [key \in Features |-> update_entry(baseline[key], new_data[key])]

\* Deviates one-sided: value - base_mean without abs
Deviates_above(value, stats) ==
    LET D == MeanD(stats.k)
        dev == FxAbsDiff(value, stats.mean, D)
    IN FxPos(stats.mean)
       /\ FxGE(FxInt(value), stats.mean)
       /\ FxGT(FxMul(dev, DEV_DEN, D), FxMul(stats.mean, DEV_NUM, D))

\* Deviates with >= in place of >
Deviates_inclusive(value, stats) ==
    LET D == MeanD(stats.k)
        dev == FxAbsDiff(value, stats.mean, D)
    IN FxPos(stats.mean)
       /\ FxGE(FxMul(dev, DEV_DEN, D), FxMul(stats.mean, DEV_NUM, D))

\* base_mean > 0 and abs(data[key] - base_mean) / base_mean > 0.85
Deviates(value, stats) ==
    LET D == MeanD(stats.k)
        dev == FxAbsDiff(value, stats.mean, D)
    IN FxPos(stats.mean)
       /\ FxGT(FxMul(dev, DEV_DEN, D), FxMul(stats.mean, DEV_NUM, D))

WatchList == <<"memory_usage", "disk_usage", "modified", "entropy_alerts">>

\* None, the reading robust_average returns when every sample failed (the
\* readings proper are >= 0)
None == -1

\* the for-loop over the watch list reaches abs(data[key] - base_mean) with
\* data[key] = None before any key deviates: TypeError
ScanRaises(vals, baseline) ==
    \E n \in 1..Len(WatchList) :
       /\ vals[WatchList[n]] = None
       /\ FxPos(baseline[WatchList[n]].mean)
       /\ \A m \in 1..(n - 1) : ~Deviates(vals[WatchList[m]], baseline[WatchList[m]])

\* update_baseline reaches alpha * new_value with new_value = None: TypeError
UpdateRaises(new_data) == \E key \in Features : new_data[key] = None

\* the for-loop over the watch list: some key deviates
RelativeRule(vals, baseline) ==
    \E n \in 1..Len(WatchList) : Deviates(vals[WatchList[n]], baseline[WatchList[n]])

\* data["modified"] >= 30 or data["renamed"] >= 30 or data["deleted"] >= 30
AbsoluteRule(vals) ==
    \/ vals["modified"] >= FILE_EVENT_THRESHOLD
    \/ vals["renamed"] >= FILE_EVENT_THRESHOLD
    \/ vals["deleted"] >= FILE_EVENT_THRESHOLD


\* ----------------------------------------------------------------- inputs
\* one reading of the 15 features; the probes that are constant stubs or
\* that no rule reads return their seed values
Snap(cpu, mem, disk, mod, ren, del, ent) ==
    [key \in Features |->
        CASE key = "cpu_usage" -> cpu
          [] key = "memory_usage" -> mem
          [] key = "disk_usage" -> disk
          [] key = "modified" -> mod
          [] key = "renamed" -> ren
          [] key = "deleted" -> del
          [] key = "entropy_alerts" -> ent
          [] key = "total_net_connections" -> 50
          [] OTHER -> 0]

NearSnapshots == {Snap(20, 30, 40, 2, 1, 1, 3), Snap(100, 33, 42, 3, 1, 1, 3)}
Mem50 == Snap(20, 50, 40, 2, 1, 1, 3)
Mem60 == Snap(20, 60, 40, 2, 1, 1, 3)
Mod30 == Snap(20, 30, 40, 30, 0, 0, 3)
Mod40 == Snap(20, 30, 40, 40, 1, 1, 3)
Disk74 == Snap(20, 30, 74, 2, 1, 1, 3)
Quiet == Snap(20, 30, 40, 0, 0, 0, 3)
Snapshots == NearSnapshots \cup {Mem50, Mem60, Mod30, Mod40, Disk74, Quiet}
EndToEndSnapshots == NearSnapshots \cup {Mod40}
\* readings whose cpu, memory or disk source gave None
CpuNone == Snap(None, 30, 40, 2, 1, 1, 3)
MemNone == Snap(20, None, 40, 2, 1, 1, 3)
Mem60DiskNone == Snap(20, 60, None, 2, 1, 1, 3)
FaultSnapshots == {Snap(20, 30, 40, 2, 1, 1, 3), Mod40, CpuNone, MemNone, Mem60DiskNone}
ConcSnapshots == {Snap(20, 30, 40, 2, 1, 1, 3), Mod40}
\* the readings of the on-demand cycles beside the registry: one that
\* publishes an alert and one that publishes nothing
RegistrySnapshots == {Snap(20, 30, 40, 2, 1, 1, 3), Mod40}
DriftSnapshots == {Snap(20, 30, 40, 2, 1, 1, 3), Mem60}
\* readings a sustained regime repeats: file events stay below 30
Mod5 == Snap(20, 30, 40, 5, 1, 1, 3)
Ent6 == Snap(20, 30, 40, 2, 1, 1, 6)
RegimeSnapshots == {Snap(20, 30, 40, 2, 1, 1, 3), Mem60, Mod5, Ent6, Quiet}

\* the keys of data["features"]: the baseline keys but cpu_usage
TrackedFeatures == Features \ {"cpu_usage"}
\* data["features"] = {"memory_usage": data["memory_usage"], ...}
FeaturesOf(vals) == [key \in TrackedFeatures |-> vals[key]]
NoFeatures == [key \in TrackedFeatures |-> 0]

\* the dict collect_system_data returns; the keys collect_and_predict adds
\* later are absent (-1, "absent", FALSE)
NewData(vals) == [vals |-> vals, ml_detection |-> -1, state |-> "absent",
                  response_triggered |-> "absent", has_features |-> FALSE,
                  features |-> NoFeatures]
NoVals == [key \in Features |-> 0]
NoData == NewData(NoVals)

\* ---------------------------------------------------------- robust_average
\* A call of func() returns a value or raises.  The values are integers; a
\* median of an even number of them and a mean are kept exactly, as
\* num / den.
Returned(v) == [ok |-> TRUE, v |-> v]
Raised == [ok |-> FALSE, v |-> 0]
SourceValues == {0, 10, 12, 1000}
Outcomes == {Raised} \cup {Returned(v) : v \in SourceValues}
SampleCounts == {3, 5}       \* samples=3 (line 178) and the default samples=5
OUTLIER_NUM == 1             \* outlier_threshold=0.2 = 1/5
OUTLIER_DEN == 5

Rat(num, den) == [none |-> FALSE, num |-> num, den |-> den]
NoneResult == [none |-> TRUE, num |-> 0, den |-> 1]

RECURSIVE Insert(_, _)
Insert(sorted, v) ==
    IF sorted = <<>> THEN <<v>>
    ELSE IF v <= Head(sorted) THEN <<v>> \o sorted
    ELSE <<Head(sorted)>> \o Insert(Tail(sorted), v)

RECURSIVE Sorted(_)
Sorted(seq) == IF seq = <<>> THEN <<>> ELSE Insert(Sorted(Tail(seq)), Head(seq))

\* np.median(vals), doubled: the middle element, or the mean of the two
\* middle elements
Median2(vals) ==
    LET s == Sorted(vals)
        n == Len(s)
    IN IF n % 2 = 1 THEN 2 * s[(n + 1) \div 2] ELSE s[n \div 2] + s[n \div 2 + 1]

Abs(x) == IF x < 0 THEN -x ELSE x

\* Passes with < in place of <=
Passes_strict(v, median2) ==
    OUTLIER_DEN * Abs(2 * v - median2) < OUTLIER_NUM * Abs(median2)

\* abs(v - median_val) / abs(median_val) <= outlier_threshold
Passes(v, median2) ==
    OUTLIER_DEN * Abs(2 * v - median2) <= OUTLIER_NUM * Abs(median2)

RECURSIVE FilterVals(_, _)
FilterVals(vals, median2) ==
    IF vals = <<>> THEN <<>>
    ELSE IF Passes(Head(vals), median2)
         THEN <<Head(vals)>> \o FilterVals(Tail(vals), median2)
         ELSE FilterVals(Tail(vals), median2)

RECURSIVE Sum(_)
Sum(seq) == IF seq = <<>> THEN 0 ELSE Head(seq) + Sum(Tail(seq))

\* lines 99-105: what robust_average returns once the loop has filled vals
robust_result(vals) ==
    IF vals = <<>> THEN NoneResult
    ELSE LET median2 == Median2(vals)
             filtered == FilterVals(vals, median2)
         IN IF median2 = 0 THEN Rat(0, 1)
            ELSE IF filtered # <<>> THEN Rat(Sum(filtered), Len(filtered))
            ELSE Rat(median2, 2)

\* the locals before a call: no call in progress
NewSampler == [pc |-> "idle", samples |-> 0, calls |-> <<>>, vals |-> <<>>,
               result |-> NoneResult]

\* ------------------------------------------------------------------ state
\* ------------------------------------------------------ simulate_ransomware
\* the simulation thread before its first call; blocked and flag are the
\* values of action_blocked and of the debounce flag its last test found,
\* ops the file operations of the last call, total those of all calls
NewSim == [pc |-> "none", i |-> 0, blocked |-> FALSE, flag |-> FALSE,
           ops |-> 0, total |-> 0, calls |-> 0]

\* ------------------------------------------------- websocket_alert_endpoint
Tokens == {"mysecrettoken", "wrong"}
\* a handle no request has come in on; one whose endpoint is in its
\* asyncio.sleep(30) after the first ping
NewSocket == [pc |-> "new", token |-> "none", open |-> TRUE, wake |-> 0]
Subscribed == [pc |-> "sleeping", token |-> "mysecrettoken", open |-> TRUE,
               wake |-> PING_INTERVAL]
NoWalk == [i |-> 0, client |-> "none"]

VARIABLES
    response_triggered_flag,  \* threading.Event: the alert-in-flight flag
    action_blocked,           \* global latch
    baseline_stats,           \* global mapping key -> [mean, std, k]
    connected_clients,        \* list of subscriber handles
    loop_queue,               \* callbacks handed to main_loop, not yet run
    sleeping,                 \* deadlines of reset_response_flag coroutines in asyncio.sleep
    now,                      \* the clock
    modified_files, renamed_files, deleted_files,   \* FileMonitorHandler sets
    pc, ret,                  \* per thread: position, return position of trigger_response
    data,                     \* per thread: the cycle's data dict
    sudden_anomaly,           \* per thread: local of collect_and_predict
    updated,                  \* per thread: result of update_baseline, not yet assigned
    counts,                   \* per thread: local of get_file_event_counts
    sent,                     \* per client and type: messages delivered
    last_msg,                 \* per client: the last message delivered
    audit,                    \* rows of correlation_log.csv
    \* history (written, never read, by the actions)
    started, cycles,          \* cycles started / completed, per thread
    fed,                      \* per poll cycle: was its reading near the seed baseline
    enforce_count, alert_count,   \* block_directory calls, alert publishes
    win,                      \* the same, timers scheduled, a failed block, in the current window
    flag_set_at, cleared_at,  \* instants of the last set and the last clear
    call,                     \* per thread: the current trigger_response call
    last_update,              \* per thread: what its last baseline write was computed from
    writes,                   \* assignments to baseline_stats
    uncounted,                \* per category: paths recorded and not yet counted
    dropped,                  \* <<category, path>> cleared uncounted by the current drain
    log,                      \* events since the last drain
    raced,                    \* a callback has run during a drain; log is kept until then
    early,                    \* per thread: the early check of the current cycle fired
    lost,                     \* per client and type: sends that raised
    \* robust_average
    sampler,                  \* the locals of one call: outcomes of func(), vals, the result
    \* simulate_ransomware
    sim,                      \* the thread of one call: position, file index, what it did
    \* websocket_alert_endpoint
    ws,                       \* per handle: the endpoint coroutine, the token, the peer
    walk                      \* the iterator of notify_clients on the worker thread

accVars == <<modified_files, renamed_files, deleted_files, counts,
             uncounted, dropped, log, raced>>
respVars == <<response_triggered_flag, action_blocked, enforce_count, alert_count,
              win, flag_set_at, cleared_at, call>>
loopVars == <<loop_queue, sleeping, sent, last_msg>>
baseVars == <<baseline_stats, updated, last_update, writes>>
cycVars == <<data, sudden_anomaly, audit, started, cycles, fed>>
regVars == <<ws, walk>>
envVars == <<sim, regVars>>
auxVars == <<sampler, early, lost, envVars>>
vars == <<accVars, respVars, loopVars, baseVars, cycVars, pc, ret, now,
          connected_clients, auxVars>>

Categories == {"modified", "renamed", "deleted"}
MsgTypes == {"alert", "live_tracking", "live_tracking_log"}

\* the module globals, with the subscribers the run starts with
Startup(registry, sockets) ==
    /\ response_triggered_flag = FALSE
    /\ action_blocked = FALSE
    /\ baseline_stats = SeedBaseline
    /\ connected_clients = registry
    /\ ws = sockets
    /\ walk = NoWalk
    /\ loop_queue = <<>>
    /\ sleeping = <<>>
    /\ now = 0
    /\ modified_files = {} /\ renamed_files = {} /\ deleted_files = {}
    /\ pc = [t \in Threads |-> "idle"]
    /\ ret = [t \in Threads |-> "idle"]
    /\ data = [t \in Threads |-> NoData]
    /\ sudden_anomaly = [t \in Threads |-> FALSE]
    /\ updated = [t \in Threads |-> SeedBaseline]
    /\ counts = [t \in Threads |-> [c \in Categories |-> 0]]
    /\ sent = [c \in Clients |-> [m \in MsgTypes |-> 0]]
    /\ last_msg = [c \in Clients |-> [type |-> "none", data |-> NoData]]
    /\ audit = <<>>
    /\ started = [t \in Threads |-> 0]
    /\ cycles = [t \in Threads |-> 0]
    /\ fed = <<>>
    /\ enforce_count = 0 /\ alert_count = 0
    /\ win = [index |-> 0, enforce |-> 0, alert |-> 0, timers |-> 0,
              suppressed |-> FALSE, block_failed |-> FALSE]
    /\ flag_set_at = -1 /\ cleared_at = -1
    /\ call = [t \in Threads |-> [entry_flag |-> FALSE, enforced |-> 0,
                                  published |-> 0, block_failed |-> FALSE,
                                  phase |-> "none"]]
    /\ last_update = [t \in Threads |-> [old |-> SeedBaseline, vals |-> NoVals,
                                         found |-> SeedBaseline]]
    /\ writes = 0
    /\ uncounted = [c \in Categories |-> {}]
    /\ dropped = {}
    /\ log = <<>>
    /\ raced = FALSE
    /\ early = [t \in Threads |-> FALSE]
    /\ lost = [c \in Clients |-> [m \in MsgTypes |-> 0]]
    /\ sampler = NewSampler
    /\ sim = NewSim

\* two subscribers have connected
Init == Startup(<<"c1", "c2">>, [c \in Clients |-> Subscribed])

\* connected_clients = []
InitRegistry == Startup(<<>>, [c \in Clients |-> NewSocket])


\* ------------------------------------------------------- alert dispatcher
\* Callbacks handed to main_loop by asyncio.run_coroutine_threadsafe.  A send
\* holds a reference to the caller's data dict (ref names the thread that
\* owns it) until the dict is final, then its value.
SendJob(client, type, ref, payload) ==
    [kind |-> "send", client |-> client, type |-> type, ref |-> ref, payload |-> payload]
ResetJob == [kind |-> "reset", client |-> "none", type |-> "none", ref |-> "frozen",
             payload |-> NoData]

\* FanOut handing each send a copy of the dict as it is at the call
FanOut_copy(type, ref, payload) ==
    [n \in 1..Len(connected_clients) |->
        SendJob(connected_clients[n], type, "frozen",
                IF ref = "frozen" THEN payload ELSE data[ref])]

\* notify_clients(message) / notify_live_tracking: one send per handle of
\* connected_clients, in list order
FanOut(type, ref, payload) ==
    [n \in 1..Len(connected_clients) |-> SendJob(connected_clients[n], type, ref, payload)]

\* the dict of thread t gets no further change: the sends that reference it
\* carry its final content
Freeze(queue, t) ==
    [n \in 1..Len(queue) |->
        IF queue[n].ref = t
        THEN [queue[n] EXCEPT !.ref = "frozen", !.payload = data[t]]
        ELSE queue[n]]

\* An exception leaves the cycle of thread t.  Nothing catches it in
\* collect_and_predict or in periodic_display_with_baseline: the poll task
\* ends with it; the /system_data request ends with an error response.
Raise(t) == pc' = [pc EXCEPT ![t] = IF t = "poll" THEN "terminated" ELSE "http_error"]

\* a detection path calls trigger_response(data); r is where the caller goes on
CallTriggerResponse(t, r) ==
    /\ pc' = [pc EXCEPT ![t] = "tr_test"]
    /\ ret' = [ret EXCEPT ![t] = r]

\* tr_test without the test
tr_test_always(t) ==
    /\ pc[t] = "tr_test"
    /\ call' = [call EXCEPT ![t] = [entry_flag |-> response_triggered_flag,
                                    enforced |-> 0, published |-> 0,
                                    block_failed |-> FALSE,
                                    phase |-> "running"]]
    /\ win' = win
    /\ pc' = [pc EXCEPT ![t] = "tr_set"]
    /\ UNCHANGED <<response_triggered_flag, action_blocked, enforce_count, alert_count,
                   flag_set_at, cleared_at>>
    /\ UNCHANGED <<accVars, loopVars, baseVars, cycVars, ret, now, connected_clients, auxVars>>

\* if not response_triggered_flag.is_set():
tr_test(t) ==
    /\ pc[t] = "tr_test"
    /\ call' = [call EXCEPT ![t] = [entry_flag |-> response_triggered_flag,
                                    enforced |-> 0, published |-> 0,
                                    block_failed |-> FALSE,
                                    phase |-> IF response_triggered_flag
                                              THEN "returned" ELSE "running"]]
    /\ win' = [win EXCEPT !.suppressed = @ \/ response_triggered_flag]
    /\ pc' = [pc EXCEPT ![t] = IF response_triggered_flag THEN ret[t] ELSE "tr_set"]
    /\ UNCHANGED <<response_triggered_flag, action_blocked, enforce_count, alert_count,
                   flag_set_at, cleared_at>>
    /\ UNCHANGED <<accVars, loopVars, baseVars, cycVars, ret, now, connected_clients, auxVars>>

\* response_triggered_flag.set()
tr_set(t) ==
    /\ pc[t] = "tr_set"
    /\ response_triggered_flag' = TRUE
    /\ flag_set_at' = IF response_triggered_flag THEN flag_set_at ELSE now
    /\ win' = IF response_triggered_flag THEN win
              ELSE [index |-> win.index + 1, enforce |-> 0, alert |-> 0, timers |-> 0,
                    suppressed |-> win.suppressed, block_failed |-> FALSE]
    /\ pc' = [pc EXCEPT ![t] = "tr_latch"]
    /\ UNCHANGED <<action_blocked, enforce_count, alert_count, cleared_at, call>>
    /\ UNCHANGED <<accVars, loopVars, baseVars, cycVars, ret, now, connected_clients, auxVars>>

\* action_blocked = True
tr_latch(t) ==
    /\ pc[t] = "tr_latch"
    /\ action_blocked' = TRUE
    /\ pc' = [pc EXCEPT ![t] = "tr_block"]
    /\ UNCHANGED <<response_triggered_flag, enforce_count, alert_count, win,
                   flag_set_at, cleared_at, call>>
    /\ UNCHANGED <<accVars, loopVars, baseVars, cycVars, ret, now, connected_clients, auxVars>>

\* block_directory(MONITOR_PATH)
block_directory(t) ==
    /\ pc[t] = "tr_block"
    /\ enforce_count' = enforce_count + 1
    /\ win' = [win EXCEPT !.enforce = @ + 1]
    /\ call' = [call EXCEPT ![t].enforced = @ + 1]
    /\ pc' = [pc EXCEPT ![t] = "tr_notify"]
    /\ UNCHANGED <<response_triggered_flag, action_blocked, alert_count,
                   flag_set_at, cleared_at>>
    /\ UNCHANGED <<accVars, loopVars, baseVars, cycVars, ret, now, connected_clients, auxVars>>

\* block_directory_fails with no try/except around the command
block_directory_fails_raises(t) ==
    /\ pc[t] = "tr_block"
    /\ enforce_count' = enforce_count + 1
    /\ win' = [win EXCEPT !.enforce = @ + 1, !.block_failed = TRUE]
    /\ call' = [call EXCEPT ![t].enforced = @ + 1, ![t].block_failed = TRUE]
    /\ Raise(t)
    /\ UNCHANGED <<response_triggered_flag, action_blocked, alert_count,
                   flag_set_at, cleared_at>>
    /\ UNCHANGED <<accVars, loopVars, baseVars, cycVars, ret, now, connected_clients, auxVars>>

\* block_directory(MONITOR_PATH) when os.getlogin() or the icacls command
\* raises: except Exception logs it and the function returns
block_directory_fails(t) ==
    /\ pc[t] = "tr_block"
    /\ enforce_count' = enforce_count + 1
    /\ win' = [win EXCEPT !.enforce = @ + 1, !.block_failed = TRUE]
    /\ call' = [call EXCEPT ![t].enforced = @ + 1, ![t].block_failed = TRUE]
    /\ pc' = [pc EXCEPT ![t] = "tr_notify"]
    /\ UNCHANGED <<response_triggered_flag, action_blocked, alert_count,
                   flag_set_at, cleared_at>>
    /\ UNCHANGED <<accVars, loopVars, baseVars, cycVars, ret, now, connected_clients, auxVars>>

\* alert_message = {"type": "alert", ..., "data": data}; notify_clients(alert_message)
notify_clients(t) ==
    /\ pc[t] = "tr_notify"
    /\ loop_queue' = loop_queue \o FanOut("alert", t, NoData)
    /\ alert_count' = alert_count + 1
    /\ win' = [win EXCEPT !.alert = @ + 1]
    /\ call' = [call EXCEPT ![t].published = @ + 1]
    /\ pc' = [pc EXCEPT ![t] = "tr_sched"]
    /\ UNCHANGED <<response_triggered_flag, action_blocked, enforce_count,
                   flag_set_at, cleared_at>>
    /\ UNCHANGED <<sleeping, sent, last_msg>>
    /\ UNCHANGED <<accVars, baseVars, cycVars, ret, now, connected_clients, auxVars>>

\* asyncio.run_coroutine_threadsafe(reset_response_flag(60), main_loop)
tr_sched(t) ==
    /\ pc[t] = "tr_sched"
    /\ loop_queue' = Append(loop_queue, ResetJob)
    /\ win' = [win EXCEPT !.timers = @ + 1]
    /\ call' = [call EXCEPT ![t].phase = "returned"]
    /\ pc' = [pc EXCEPT ![t] = ret[t]]
    /\ UNCHANGED <<response_triggered_flag, action_blocked, enforce_count, alert_count,
                   flag_set_at, cleared_at>>
    /\ UNCHANGED <<sleeping, sent, last_msg>>
    /\ UNCHANGED <<accVars, baseVars, cycVars, ret, now, connected_clients, auxVars>>

trigger_response(t) ==
    \/ tr_test(t) \/ tr_set(t) \/ tr_latch(t)
    \/ block_directory(t) \/ notify_clients(t) \/ tr_sched(t)

\* ------------------------------------------------------------- event loop
\* The poll task runs on main_loop and never awaits inside a cycle, so the
\* loop runs its other callbacks only while the poll task is in
\* asyncio.sleep(2), or once the poll task has ended.
LoopFree == pc["poll"] \in {"idle", "terminated"}

\* client.send_json(message): the message is serialised now
send_json ==
    /\ LoopFree
    /\ loop_queue # <<>>
    /\ Head(loop_queue).kind = "send"
    /\ LET job == Head(loop_queue)
           payload == IF job.ref = "frozen" THEN job.payload ELSE data[job.ref]
       IN /\ sent' = [sent EXCEPT ![job.client][job.type] = @ + 1]
          /\ last_msg' = [last_msg EXCEPT ![job.client] =
                             [type |-> job.type, data |-> payload]]
    /\ loop_queue' = Tail(loop_queue)
    /\ UNCHANGED <<sleeping, accVars, respVars, baseVars, cycVars, pc, ret, now,
                   connected_clients, auxVars>>

\* send_json_fails taking the next send of the publish down with it
send_json_fails_aborts ==
    /\ LoopFree
    /\ loop_queue # <<>>
    /\ Head(loop_queue).kind = "send"
    /\ LET job == Head(loop_queue)
       IN lost' = [lost EXCEPT ![job.client][job.type] = @ + 1]
    /\ loop_queue' = IF /\ Len(loop_queue) >= 2
                         /\ loop_queue[2].kind = "send"
                         /\ loop_queue[2].type = loop_queue[1].type
                      THEN Tail(Tail(loop_queue)) ELSE Tail(loop_queue)
    /\ UNCHANGED <<sleeping, sent, last_msg, accVars, respVars, baseVars, cycVars, pc, ret,
                   now, connected_clients, sampler, early, envVars>>

\* client.send_json(message) raises (the connection is gone): the exception
\* stays in the future run_coroutine_threadsafe returned, which nobody reads
send_json_fails ==
    /\ LoopFree
    /\ loop_queue # <<>>
    /\ Head(loop_queue).kind = "send"
    /\ LET job == Head(loop_queue)
       IN lost' = [lost EXCEPT ![job.client][job.type] = @ + 1]
    /\ loop_queue' = Tail(loop_queue)
    /\ UNCHANGED <<sleeping, sent, last_msg, accVars, respVars, baseVars, cycVars, pc, ret,
                   now, connected_clients, sampler, early, envVars>>

\* reset_response_flag starts: await asyncio.sleep(delay)
reset_start ==
    /\ LoopFree
    /\ loop_queue # <<>>
    /\ Head(loop_queue).kind = "reset"
    /\ sleeping' = Append(sleeping, now + COOLDOWN)
    /\ loop_queue' = Tail(loop_queue)
    /\ UNCHANGED <<sent, last_msg, accVars, respVars, baseVars, cycVars, pc, ret, now,
                   connected_clients, auxVars>>

Remove(seq, n) == SubSeq(seq, 1, n - 1) \o SubSeq(seq, n + 1, Len(seq))
Due == {n \in 1..Len(sleeping) : sleeping[n] <= now}

\* reset_response_flag clearing the latch with the flag
reset_response_flag_unlatches ==
    /\ LoopFree
    /\ \E n \in Due :
         /\ \A m \in Due : sleeping[n] <= sleeping[m]
         /\ sleeping' = Remove(sleeping, n)
    /\ response_triggered_flag' = FALSE
    /\ action_blocked' = FALSE
    /\ cleared_at' = now
    /\ UNCHANGED <<enforce_count, alert_count, win, flag_set_at, call>>
    /\ UNCHANGED <<loop_queue, sent, last_msg, accVars, baseVars, cycVars, pc, ret, now,
                   connected_clients, auxVars>>

\* reset_response_flag resumes: response_triggered_flag.clear()
reset_response_flag ==
    /\ LoopFree
    /\ \E n \in Due :
         /\ \A m \in Due : sleeping[n] <= sleeping[m]
         /\ sleeping' = Remove(sleeping, n)
    /\ response_triggered_flag' = FALSE
    /\ cleared_at' = now
    /\ UNCHANGED <<action_blocked, enforce_count, alert_count, win, flag_set_at, call>>
    /\ UNCHANGED <<loop_queue, sent, last_msg, accVars, baseVars, cycVars, pc, ret, now,
                   connected_clients, auxVars>>

\* one time unit passes; the loop has run everything that was ready
Tick ==
    /\ now < MaxTime
    /\ \A t \in Threads : pc[t] = "idle"
    /\ loop_queue = <<>>
    /\ Due = {}
    /\ now' = now + 1
    /\ UNCHANGED <<accVars, respVars, loopVars, baseVars, cycVars, pc, ret,
                   connected_clients, auxVars>>


\* --------------------------------------------- the dispatcher, one caller
\* an anomaly signal: a detection path of the poll loop calls
\* trigger_response(data)
Anomaly ==
    /\ pc["poll"] = "idle"
    /\ CallTriggerResponse("poll", "idle")
    /\ UNCHANGED <<accVars, respVars, loopVars, baseVars, cycVars, now, connected_clients, auxVars>>

NextDebounce ==
    \/ Anomaly
    \/ trigger_response("poll")
    \/ send_json
    \/ reset_start
    \/ reset_response_flag
    \/ Tick

SpecDebounce == Init /\ [][NextDebounce]_vars

ResetsPending ==
    Len(sleeping) + Cardinality({n \in 1..Len(loop_queue) : loop_queue[n].kind = "reset"})

collect_system_data(t, S) ==
    /\ pc[t] = "idle"
    /\ \E vals \in S :
         /\ data' = [data EXCEPT ![t] = NewData(vals)]
         /\ fed' = IF t = "poll" THEN Append(fed, vals \in NearSnapshots) ELSE fed
    /\ started' = [started EXCEPT ![t] = @ + 1]
    /\ pc' = [pc EXCEPT ![t] = "early_rel"]
    /\ early' = [early EXCEPT ![t] = FALSE]
    /\ UNCHANGED <<sudden_anomaly, audit, cycles>>
    /\ UNCHANGED <<accVars, respVars, loopVars, baseVars, ret, now, connected_clients,
                   sampler, lost, envVars>>

\* check_and_trigger_early_alert, the loop over the watch list: the first
\* deviating key calls trigger_response and returns
early_relative(t) ==
    /\ pc[t] = "early_rel"
    /\ IF ScanRaises(data[t].vals, baseline_stats)
       THEN Raise(t) /\ UNCHANGED <<ret, early>>
       ELSE IF RelativeRule(data[t].vals, baseline_stats)
       THEN CallTriggerResponse(t, "main_rel") /\ early' = [early EXCEPT ![t] = TRUE]
       ELSE pc' = [pc EXCEPT ![t] = "early_abs"] /\ UNCHANGED <<ret, early>>
    /\ UNCHANGED <<accVars, respVars, loopVars, baseVars, cycVars, now, connected_clients,
                   sampler, lost, envVars>>

\* check_and_trigger_early_alert, the file-event test
early_absolute(t) ==
    /\ pc[t] = "early_abs"
    /\ IF AbsoluteRule(data[t].vals)
       THEN CallTriggerResponse(t, "main_rel") /\ early' = [early EXCEPT ![t] = TRUE]
       ELSE pc' = [pc EXCEPT ![t] = "main_rel"] /\ UNCHANGED <<ret, early>>
    /\ UNCHANGED <<accVars, respVars, loopVars, baseVars, cycVars, now, connected_clients,
                   sampler, lost, envVars>>

\* sudden_anomaly = False; for key in [...]: if ...: sudden_anomaly = True; break
main_relative(t) ==
    /\ pc[t] = "main_rel"
    /\ IF ScanRaises(data[t].vals, baseline_stats)
       THEN Raise(t) /\ sudden_anomaly' = [sudden_anomaly EXCEPT ![t] = FALSE]
       ELSE /\ sudden_anomaly' = [sudden_anomaly EXCEPT ![t] =
                                     RelativeRule(data[t].vals, baseline_stats)]
            /\ pc' = [pc EXCEPT ![t] = "main_abs"]
    /\ UNCHANGED <<data, audit, started, cycles, fed>>
    /\ UNCHANGED <<accVars, respVars, loopVars, baseVars, ret, now, connected_clients, auxVars>>

\* the file-event test, then detection, data["ml_detection"], data["state"]
classify(t) ==
    /\ pc[t] = "main_abs"
    /\ LET anomaly == sudden_anomaly[t] \/ AbsoluteRule(data[t].vals)
           detection == IF anomaly THEN 1 ELSE 0
       IN /\ sudden_anomaly' = [sudden_anomaly EXCEPT ![t] = anomaly]
          /\ data' = [data EXCEPT ![t].ml_detection = detection,
                                  ![t].state = IF detection = 1
                                               THEN "ransomware detected" ELSE "normal"]
    /\ pc' = [pc EXCEPT ![t] = "respond"]
    /\ UNCHANGED <<audit, started, cycles, fed>>
    /\ UNCHANGED <<accVars, respVars, loopVars, baseVars, ret, now, connected_clients, auxVars>>

\* respond calling trigger_response whatever the detection
respond_always(t) ==
    /\ pc[t] = "respond"
    /\ CallTriggerResponse(t, "resp_set") /\ UNCHANGED data
    /\ UNCHANGED <<sudden_anomaly, audit, started, cycles, fed>>
    /\ UNCHANGED <<accVars, respVars, loopVars, baseVars, now, connected_clients, auxVars>>

\* if detection == 1: trigger_response(data) ... else: data["response_triggered"] = False
respond(t) ==
    /\ pc[t] = "respond"
    /\ IF data[t].ml_detection = 1
       THEN CallTriggerResponse(t, "resp_set") /\ UNCHANGED data
       ELSE /\ data' = [data EXCEPT ![t].response_triggered = "False"]
            /\ pc' = [pc EXCEPT ![t] = "update_read"]
            /\ UNCHANGED ret
    /\ UNCHANGED <<sudden_anomaly, audit, started, cycles, fed>>
    /\ UNCHANGED <<accVars, respVars, loopVars, baseVars, now, connected_clients, auxVars>>

\* data["response_triggered"] = True
response_set(t) ==
    /\ pc[t] = "resp_set"
    /\ data' = [data EXCEPT ![t].response_triggered = "True"]
    /\ pc' = [pc EXCEPT ![t] = "update_read"]
    /\ UNCHANGED <<sudden_anomaly, audit, started, cycles, fed>>
    /\ UNCHANGED <<accVars, respVars, loopVars, baseVars, ret, now, connected_clients, auxVars>>

\* the right-hand side of baseline_stats = update_baseline(baseline_stats, data):
\* the global is read and the new mapping is built
baseline_read(t) ==
    /\ pc[t] = "update_read"
    /\ IF UpdateRaises(data[t].vals)
       THEN Raise(t) /\ UNCHANGED <<updated, last_update>>
       ELSE /\ updated' = [updated EXCEPT ![t] =
                              update_baseline(baseline_stats, data[t].vals)]
            /\ last_update' = [last_update EXCEPT ![t].old = baseline_stats,
                                                  ![t].vals = data[t].vals]
            /\ pc' = [pc EXCEPT ![t] = "update_write"]
    /\ UNCHANGED <<baseline_stats, writes>>
    /\ UNCHANGED <<accVars, respVars, loopVars, cycVars, ret, now, connected_clients, auxVars>>

\* StoreBaseline writing the entries into the existing mapping, caught
\* after the first key
StoreBaseline_in_place(old, new) ==
    [key \in Features |-> IF key = BaselineKeys[1] THEN new[key] ELSE old[key]]

\* the global name is bound to the new mapping
StoreBaseline(old, new) == new

baseline_write(t) ==
    /\ pc[t] = "update_write"
    /\ baseline_stats' = StoreBaseline(baseline_stats, updated[t])
    /\ last_update' = [last_update EXCEPT ![t].found = baseline_stats]
    /\ writes' = writes + 1
    /\ pc' = [pc EXCEPT ![t] = "features"]
    /\ UNCHANGED updated
    /\ UNCHANGED <<accVars, respVars, loopVars, cycVars, ret, now, connected_clients, auxVars>>

\* features with the poll loop going on to notify_live_tracking at once
features_then_live(t) ==
    /\ pc[t] = "features"
    /\ data' = [data EXCEPT ![t].has_features = TRUE,
                            ![t].features = FeaturesOf(data[t].vals)]
    /\ pc' = [pc EXCEPT ![t] = IF t = "poll" THEN "live" ELSE "http_return"]
    /\ UNCHANGED <<sudden_anomaly, audit, started, cycles, fed>>
    /\ UNCHANGED <<accVars, respVars, loopVars, baseVars, ret, now, connected_clients, auxVars>>

\* data["features"] = {...}; return data
features(t) ==
    /\ pc[t] = "features"
    /\ data' = [data EXCEPT ![t].has_features = TRUE,
                            ![t].features = FeaturesOf(data[t].vals)]
    /\ pc' = [pc EXCEPT ![t] = IF t = "poll" THEN "audit" ELSE "http_return"]
    /\ UNCHANGED <<sudden_anomaly, audit, started, cycles, fed>>
    /\ UNCHANGED <<accVars, respVars, loopVars, baseVars, ret, now, connected_clients, auxVars>>

collect_and_predict(t) ==
    \/ early_relative(t) \/ early_absolute(t)
    \/ main_relative(t) \/ classify(t)
    \/ respond(t) \/ response_set(t)
    \/ baseline_read(t) \/ baseline_write(t)
    \/ features(t)

\* ---------------------------------------------------------------- poll loop
\* correlation_engine(data): one row of the csv
correlation_engine ==
    /\ pc["poll"] = "audit"
    /\ audit' = Append(audit, [ml_detection |-> data["poll"].ml_detection,
                               state |-> data["poll"].state,
                               response_triggered |-> data["poll"].response_triggered])
    /\ pc' = [pc EXCEPT !["poll"] = "live"]
    /\ UNCHANGED <<data, sudden_anomaly, started, cycles, fed>>
    /\ UNCHANGED <<accVars, respVars, loopVars, baseVars, ret, now, connected_clients, auxVars>>

\* correlation_engine(data) when open() or a write raises: no row
correlation_engine_raises ==
    /\ pc["poll"] = "audit"
    /\ Raise("poll")
    /\ UNCHANGED <<accVars, respVars, loopVars, baseVars, cycVars, ret, now,
                   connected_clients, auxVars>>

\* notify_live_tracking publishing only the cycles that detected nothing
notify_live_tracking_if_normal ==
    /\ pc["poll"] = "live"
    /\ loop_queue' = IF data["poll"].ml_detection = 0
                      THEN loop_queue \o FanOut("live_tracking", "frozen",
                                                data["poll"].features)
                      ELSE loop_queue
    /\ pc' = [pc EXCEPT !["poll"] = "await"]
    /\ UNCHANGED <<sleeping, sent, last_msg>>
    /\ UNCHANGED <<accVars, respVars, baseVars, cycVars, ret, now, connected_clients, auxVars>>

\* notify_live_tracking(data): data["features"] is a dict of its own that
\* nothing changes after it is built
notify_live_tracking ==
    /\ pc["poll"] = "live"
    /\ loop_queue' = loop_queue \o FanOut("live_tracking", "frozen", data["poll"].features)
    /\ pc' = [pc EXCEPT !["poll"] = "await"]
    /\ UNCHANGED <<sleeping, sent, last_msg>>
    /\ UNCHANGED <<accVars, respVars, baseVars, cycVars, ret, now, connected_clients, auxVars>>

\* await asyncio.sleep(2): the poll task yields to the loop
poll_await ==
    /\ pc["poll"] = "await"
    /\ loop_queue' = Freeze(loop_queue, "poll")
    /\ cycles' = [cycles EXCEPT !["poll"] = @ + 1]
    /\ pc' = [pc EXCEPT !["poll"] = "idle"]
    /\ UNCHANGED <<data, sudden_anomaly, audit, started, fed>>
    /\ UNCHANGED <<sleeping, sent, last_msg>>
    /\ UNCHANGED <<accVars, respVars, baseVars, ret, now, connected_clients, auxVars>>

\* the next iteration of while True: the 2-unit sleep is over, so the loop
\* has run every callback that was ready
poll_cycle(S, max) ==
    /\ started["poll"] + started["web"] < max
    /\ loop_queue = <<>>
    /\ collect_system_data("poll", S)

periodic_display_with_baseline(S, max) ==
    \/ poll_cycle(S, max)
    \/ collect_and_predict("poll")
    \/ trigger_response("poll")
    \/ correlation_engine
    \/ notify_live_tracking
    \/ poll_await

\* time passes until the earliest reset timer is due
Elapse ==
    /\ LoopFree
    /\ loop_queue = <<>>
    /\ sleeping # <<>>
    /\ Due = {}
    /\ \E n \in 1..Len(sleeping) :
         /\ \A m \in 1..Len(sleeping) : sleeping[n] <= sleeping[m]
         /\ now' = sleeping[n]
    /\ UNCHANGED <<accVars, respVars, loopVars, baseVars, cycVars, pc, ret,
                   connected_clients, auxVars>>

NextPoll ==
    \/ periodic_display_with_baseline(Snapshots, MaxCycles)
    \/ send_json
    \/ reset_start
    \/ reset_response_flag
    \/ Elapse

SpecPoll == Init /\ [][NextPoll]_vars

\* the same loop, fed near-baseline readings and the modified=40 reading
NextEndToEnd ==
    \/ periodic_display_with_baseline(EndToEndSnapshots, MaxEndToEnd)
    \/ send_json
    \/ reset_start
    \/ reset_response_flag
    \/ Elapse

SpecEndToEnd == Init /\ [][NextEndToEnd]_vars

\* ------------------------------------------------- the loop, one regime
\* the sources give the first cycle any reading of RegimeSnapshots and every
\* later cycle the reading of the cycle before
NextRegime ==
    \/ periodic_display_with_baseline(IF started["poll"] = 0 THEN RegimeSnapshots
                                      ELSE {data["poll"].vals}, MaxRegime)
    \/ send_json
    \/ reset_start
    \/ reset_response_flag
    \/ Elapse

SpecRegime == Init /\ [][NextRegime]_vars

\* ------------------------------------------------------- the loop, failing
\* readings in which a sampled source gave None, a failing enforcement
\* action, a failing audit append and failing sends
NextFault ==
    \/ periodic_display_with_baseline(FaultSnapshots, MaxFaultCycles)
    \/ block_directory_fails("poll")
    \/ correlation_engine_raises
    \/ send_json
    \/ send_json_fails
    \/ reset_start
    \/ reset_response_flag
    \/ Elapse

SpecFault == Init /\ [][NextFault]_vars

\* C11: whatever stage of a cycle raises, the poll loop does not end: the
\* next cycle still runs.
C11_PollLoopResilient == pc["poll"] # "terminated"

\* C12: no feature of a snapshot is None when the early check, the detector
\* or the baseline update consumes it (a source whose samples all failed
\* gets a numeric fallback), and the cycle that read it completes.
C12_SourceFailureFallback ==
    \A t \in Threads :
       pc[t] # "idle" => \A key \in Features : data[t].vals[key] # None

\* sends of a type handed to the loop for client c and not yet run
Queued(c, type) ==
    Cardinality({n \in 1..Len(loop_queue) :
                    /\ loop_queue[n].kind = "send"
                    /\ loop_queue[n].client = c
                    /\ loop_queue[n].type = type})

\* every subscriber has got, lost or is about to get each alert published
AlertToAll ==
    \A c \in Clients : sent[c]["alert"] + lost[c]["alert"] + Queued(c, "alert") = alert_count

\* C13: when the dispatcher fires and block_directory fails, the flag is
\* set, the action is invoked once and not again, the alert is published
\* to every subscriber and the reset timer is scheduled.
C13_EnforcementFailure ==
    /\ \A t \in Threads :
          call[t].block_failed =>
             /\ call[t].enforced = 1
             /\ call[t].phase = "running" =>
                   /\ pc[t] \in {"tr_notify", "tr_sched"}
                   /\ call[t].published = (IF pc[t] = "tr_sched" THEN 1 ELSE 0)
             /\ call[t].phase = "returned" => call[t].published = 1
    /\ win.block_failed =>
          /\ win.enforce = 1
          /\ flag_set_at >= 0
          /\ (response_triggered_flag \/ cleared_at >= flag_set_at + COOLDOWN)
          /\ (\A t \in Threads : call[t].phase # "running") =>
                /\ win.alert = 1 /\ win.timers = 1
                /\ response_triggered_flag => ResetsPending = 1
          /\ AlertToAll

\* the enforcement action failed, both subscribers hold the alert, the flag
\* is set and its timer runs
C13_Witness ==
    /\ win.block_failed
    /\ win.enforce = 1 /\ win.alert = 1 /\ win.timers = 1
    /\ \A c \in Clients : sent[c]["alert"] = 1
    /\ response_triggered_flag
    /\ sleeping = <<COOLDOWN>>

\* calls of notify_live_tracking so far: one per row of the log, after it
LivePublishes == Len(audit) - (IF pc["poll"] = "live" THEN 1 ELSE 0)

LiveToAll ==
    \A c \in Clients :
       sent[c]["live_tracking"] + lost[c]["live_tracking"] + Queued(c, "live_tracking")
          = LivePublishes

\* C15: a send that fails for one subscriber takes nothing from the others:
\* every publish, alert or live feed, reaches, fails for or is still queued
\* for each subscriber of the registry; the failing send changes no
\* position of any cycle and removes only itself from the loop's queue.
C15_SendFailureIsolation ==
    /\ [](AlertToAll /\ LiveToAll)
    /\ [][lost' # lost =>
            /\ pc' = pc
            /\ sent' = sent
            /\ loop_queue' = Tail(loop_queue)]_vars

\* both publishes of a cycle failed for c1 and reached c2, and the loop went
\* on to a second cycle
C15_Witness ==
    /\ lost["c1"]["alert"] = 1 /\ lost["c1"]["live_tracking"] = 1
    /\ sent["c2"]["alert"] = 1 /\ sent["c2"]["live_tracking"] = 1
    /\ cycles["poll"] = 1
    /\ pc["poll"] = "live"


\* ------------------------------------------------------------ the detector
\* positions of a cycle before and after its assignment to baseline_stats
BeforeWrite == {"respond", "tr_test", "tr_set", "tr_latch", "tr_block", "tr_notify",
                "tr_sched", "resp_set", "update_read", "update_write"}
AfterWrite == {"features", "audit", "live", "await", "http_return"}

\* the baseline the poll cycle's detector saw
BaselineBefore ==
    IF pc["poll"] \in BeforeWrite THEN baseline_stats ELSE last_update["poll"].old

\* mean > 0 and |v - mean| / mean > 85/100
Exceeds85(v, stats) ==
    LET D == MeanD(stats.k)
    IN /\ stats.mean # FxInt(0)
       /\ FxGT(FxMul(FxAbsDiff(v, stats.mean, D), 100, D), FxMul(stats.mean, 85, D))

Anomalous(vals, baseline) ==
    \/ \E key \in {"memory_usage", "disk_usage", "modified", "entropy_alerts"} :
          Exceeds85(vals[key], baseline[key])
    \/ vals["modified"] >= 30 \/ vals["renamed"] >= 30 \/ vals["deleted"] >= 30

\* C5: once a cycle has classified its snapshot, detection = 1 and state =
\* "ransomware detected" exactly when the relative rule (against the baseline
\* before this cycle's update) or the absolute rule holds, else 0 and
\* "normal"; nothing else enters the decision.
C5_DetectorDecision ==
    LET d == data["poll"]
    IN d.ml_detection # -1 =>
         /\ d.ml_detection = (IF Anomalous(d.vals, BaselineBefore) THEN 1 ELSE 0)
         /\ d.state = (IF d.ml_detection = 1 THEN "ransomware detected" ELSE "normal")
         /\ (d.vals = Mem60 /\ BaselineBefore = SeedBaseline) => d.ml_detection = 1
         /\ (d.vals = Mem50 /\ BaselineBefore = SeedBaseline) => d.ml_detection = 0
         /\ d.vals["modified"] = 30 => d.ml_detection = 1

\* a reading classified normal while the flag of an earlier alert is set and
\* the previous row of the log says "ransomware detected"
C5_Witness ==
    /\ pc["poll"] = "respond"
    /\ data["poll"].state = "normal"
    /\ response_triggered_flag
    /\ audit # <<>>
    /\ audit[Len(audit)].state = "ransomware detected"
    /\ baseline_stats # SeedBaseline

\* ------------------------------------------------------------ the baseline
\* 10 * mean' = 9 * mean + v
MeanStep(old, new, v) ==
    LET D == MeanD(new.k)
    IN FxMul(new.mean, 10, D) = FxAddInt(FxMul(FxScale(old.mean, 10), 9, D), v)

\* 10 * std' = 9 * std + |v - mean'|
StdStep(old, new, v) ==
    LET D == MeanD(new.k)
        E == StdD(new.k)
    IN FxMul(new.std, 10, E) =
          FxAdd(FxMul(FxScale(old.std, 10), 9, E),
                FxScale(FxAbsDiff(v, new.mean, D), 20), E)

\* the poll loop's last assignment to baseline_stats is in effect
PollWriteInEffect == writes >= 1 /\ pc["poll"] # "update_write"

\* C6: every completed cycle applies the smoothing update with alpha = 0.1
\* once, to every feature, whatever the detection and the debounce did; a
\* value equal to the mean leaves the mean, and 100 on mean 20 gives 28.
C6_BaselineUpdateRule ==
    /\ writes = cycles["poll"] + (IF pc["poll"] \in AfterWrite THEN 1 ELSE 0)
    /\ \A key \in Features : baseline_stats[key].k = writes
    /\ PollWriteInEffect =>
         \A key \in Features :
            LET old == last_update["poll"].old[key]
                new == baseline_stats[key]
                v == last_update["poll"].vals[key]
            IN /\ new.k = old.k + 1
               /\ MeanStep(old, new, v)
               /\ StdStep(old, new, v)
               /\ old.mean = FxInt(v) => new.mean = FxInt(v)
               /\ (old.mean = FxInt(20) /\ v = 100) => new.mean = FxInt(28)

\* the update of a cycle whose detection was 1 and whose alert was debounced
C6_Witness ==
    /\ pc["poll"] = "features"
    /\ data["poll"].ml_detection = 1
    /\ call["poll"].entry_flag
    /\ win.enforce = 1
    /\ writes = 2
    /\ baseline_stats["cpu_usage"].mean # FxInt(20)

FxNonNeg(x) == x.i >= 0 /\ x.f >= 0

\* C9: std >= 0 and mean >= 0 for every feature in every state, and each new
\* mean lies between the previous mean and the observed value.
C9_BaselineBounds ==
    /\ \A key \in Features :
         FxNonNeg(baseline_stats[key].std) /\ FxNonNeg(baseline_stats[key].mean)
    /\ PollWriteInEffect =>
         \A key \in Features :
            LET old == FxScale(last_update["poll"].old[key].mean, 10)
                new == baseline_stats[key].mean
                v == FxInt(last_update["poll"].vals[key])
            IN \/ FxGE(new, old) /\ FxGE(v, new)
               \/ FxGE(old, new) /\ FxGE(new, v)

\* means that have moved strictly between the old mean and the value
C9_Witness ==
    /\ pc["poll"] = "idle"
    /\ writes = 3
    /\ last_update["poll"].vals["memory_usage"] = 60
    /\ FxGT(baseline_stats["memory_usage"].mean, FxScale(last_update["poll"].old["memory_usage"].mean, 10))
    /\ FxGT(FxInt(60), baseline_stats["memory_usage"].mean)
    /\ FxGT(baseline_stats["modified"].std, FxInt(0))

\* ------------------------------------------------------------- end to end
AllNear(n) == \A m \in 1..n : fed[m]

LiveCount ==
    sent["c1"]["live_tracking"] + lost["c1"]["live_tracking"] + Queued("c1", "live_tracking")

Dispatching == {"tr_test", "tr_set", "tr_latch", "tr_block", "tr_notify", "tr_sched"}

\* C19 as claimed: the stages of a poll cycle run in the order snapshot,
\* detector, baseline update, dispatcher, live feed, audit record: the
\* cycle's baseline update precedes its enforcement action and its alert
\* publish, and its live-feed publish precedes its audit append.
C19_StageOrderClaimed ==
    /\ pc["poll"] \in {"tr_block", "tr_notify"} => writes = started["poll"]
    /\ LiveCount >= Len(audit)

\* C19 as amended: the stages run in the order snapshot, early check (with
\* the dispatcher if it fires), detector, dispatcher (if anomalous),
\* baseline update, audit record, live feed: every enforcement action and
\* alert publish of a cycle precedes its baseline update, and the audit
\* append precedes the live-feed publish.
C19_StageOrder ==
    LET n == started["poll"]
        at == pc["poll"]
        done(detected, w, a, l) ==
            /\ (data["poll"].ml_detection # -1) = detected
            /\ writes = n - w /\ Len(audit) = n - a /\ LiveCount = n - l
    IN /\ at \in {"early_rel", "early_abs", "main_rel", "main_abs"} => done(FALSE, 1, 1, 1)
       /\ at \in Dispatching => writes = n - 1 /\ Len(audit) = n - 1 /\ LiveCount = n - 1
       /\ at \in {"respond", "resp_set", "update_read", "update_write"} => done(TRUE, 1, 1, 1)
       /\ at \in {"features", "audit"} => done(TRUE, 0, 1, 1)
       /\ at = "live" => done(TRUE, 0, 0, 1)
       /\ at = "await" => done(TRUE, 0, 0, 0)
       /\ (at = "idle" /\ n >= 1) => done(TRUE, 0, 0, 0)
       /\ enforce_count + alert_count > 0 => n >= 1

\* a cycle that has enforced and published its alert, then updated the
\* baseline, then appended its row, and has not yet published its live feed
C19_Witness ==
    /\ pc["poll"] = "live"
    /\ started["poll"] = 1
    /\ enforce_count = 1 /\ alert_count = 1
    /\ writes = 1 /\ Len(audit) = 1 /\ LiveCount = 0


\* --------------------------------------------------- a sustained regime
Watched == {"memory_usage", "disk_usage", "modified", "entropy_alerts"}

\* each mean is nearer to the regime's value than before the update, or on it
MeansApproach ==
    PollWriteInEffect =>
       \A key \in Features :
          LET D == MeanD(baseline_stats[key].k)
              v == last_update["poll"].vals[key]
              before == FxAbsDiff(v, FxScale(last_update["poll"].old[key].mean, 10), D)
              after == FxAbsDiff(v, baseline_stats[key].mean, D)
          IN IF before = FxInt(0) THEN after = FxInt(0) ELSE FxGT(before, after)

\* a row "normal" is followed by rows "normal" only
StaysNormal ==
    \A n \in 1..Len(audit) : \A m \in n..Len(audit) :
       audit[n].state = "normal" => audit[m].state = "normal"

\* C20 as claimed: in a regime of constant readings (any non-negative
\* values, file events below 30) the means approach the readings every
\* cycle, the detector reports "normal" after finitely many cycles (here by
\* the fourth) and keeps reporting it.
C20_AbsorptionClaimed ==
    /\ MeansApproach
    /\ StaysNormal
    /\ Len(audit) >= 4 => audit[Len(audit)].state = "normal"

\* C20 as amended: the same for a regime whose watched readings are all
\* positive; a watched reading of 0 against a positive mean deviates by
\* exactly 1 whatever the mean, so that regime is reported "ransomware
\* detected" in every cycle.
C20_Absorption ==
    LET v == data["poll"].vals
    IN started["poll"] >= 1 =>
       /\ MeansApproach
       /\ (\A key \in Watched : v[key] > 0) =>
             /\ StaysNormal
             /\ Len(audit) >= 4 => audit[Len(audit)].state = "normal"
       /\ (\E key \in Watched : v[key] = 0 /\ FxPos(SeedBaseline[key].mean)) =>
             /\ \A n \in 1..Len(audit) : audit[n].state = "ransomware detected"
             /\ \A key \in Watched :
                   v[key] = 0 => (FxPos(baseline_stats[key].mean)
                                  /\ Deviates(0, baseline_stats[key]))

\* modified = 5 against the seed mean 2: three cycles detected, then normal
C20_Witness ==
    /\ data["poll"].vals = Mod5
    /\ Len(audit) = 5
    /\ \A n \in 1..3 : audit[n].state = "ransomware detected"
    /\ \A n \in 4..5 : audit[n].state = "normal"
    /\ pc["poll"] = "idle"


\* ------------------------------------------------------- drops to zero
\* a watched feature reads 0 while the detector's baseline mean for it is > 0
DropsToZero(vals, baseline) ==
    \E key \in Watched : vals[key] = 0 /\ baseline[key].mean # FxInt(0)

\* C23: a watched reading of 0 against a baseline mean > 0 deviates by
\* exactly 1.0 (|0 - mean| = mean) and the cycle is classified detection = 1,
\* "ransomware detected", with the dispatcher called by the early check and
\* by the detector; from the seed baseline this is the cycle with no file
\* activity; the mean of modified stays > 0 after every update, so every
\* later cycle with modified = 0 is classified the same way.
C23_DropToZeroDetected ==
    LET d == data["poll"]
    IN /\ \A key \in Watched :
            FxPos(SeedBaseline[key].mean) =>
               /\ FxPos(baseline_stats[key].mean)
               /\ FxAbsDiff(0, baseline_stats[key].mean, MeanD(baseline_stats[key].k))
                     = baseline_stats[key].mean
       /\ (d.ml_detection # -1 /\ DropsToZero(d.vals, BaselineBefore)) =>
             /\ d.ml_detection = 1
             /\ d.state = "ransomware detected"
             /\ early["poll"]
             /\ pc["poll"] \notin (Dispatching \cup {"respond", "resp_set"}) =>
                   d.response_triggered = "True"
       /\ (pc["poll"] = "idle" /\ cycles["poll"] >= 1 /\ d.vals["modified"] = 0) =>
             /\ audit[Len(audit)].ml_detection = 1
             /\ audit[Len(audit)].state = "ransomware detected"
             /\ audit[Len(audit)].response_triggered = "True"
       /\ (started["poll"] = 1 /\ d.vals = Quiet /\ pc["poll"] = "update_read") =>
             enforce_count = 1 /\ alert_count = 1

\* a cycle with no file activity, detected after two cycles that moved the
\* baseline, the first of them normal
C23_Witness ==
    /\ pc["poll"] = "idle"
    /\ Len(audit) = 3
    /\ data["poll"].vals = Quiet
    /\ audit[1].state = "normal"
    /\ audit[3].state = "ransomware detected"
    /\ FxGT(FxInt(2), baseline_stats["modified"].mean)
    /\ FxPos(baseline_stats["modified"].mean)


\* ------------------------------------------------- no spurious response
\* C22: every enforcement action, every alert publish and every setting of
\* the debounce flag is a step of a trigger_response call made by a cycle
\* whose snapshot satisfied the relative or the absolute rule against the
\* baseline the cycle read when it tested the rule; a cycle whose snapshot
\* satisfies neither rule makes no such call.
C22_NoSpuriousResponse ==
    /\ [](\A t \in Threads :
            pc[t] \in Dispatching =>
               \/ (ret[t] = "main_rel" /\ early[t])
               \/ (ret[t] = "resp_set" /\ data[t].ml_detection = 1))
    /\ [][\A t \in Threads :
            /\ (early'[t] /\ ~early[t]) => Anomalous(data[t].vals, baseline_stats)
            /\ (pc[t] = "main_rel" /\ pc'[t] = "main_abs" /\ sudden_anomaly'[t]) =>
                  \E key \in Watched : Exceeds85(data[t].vals[key], baseline_stats[key])
            /\ (data'[t].ml_detection = 1 /\ data[t].ml_detection # 1) =>
                  \/ sudden_anomaly[t]
                  \/ \E c \in Categories : data[t].vals[c] >= 30]_vars
    /\ [][(\/ enforce_count' # enforce_count
            \/ alert_count' # alert_count
            \/ action_blocked' # action_blocked
            \/ (response_triggered_flag' /\ ~response_triggered_flag)) =>
              \E t \in Threads : pc[t] \in Dispatching /\ pc'[t] # pc[t]]_vars

\* a first cycle whose reading satisfied neither rule and that left
\* everything untouched, then a cycle that detected and responded once
C22_Witness ==
    /\ pc["poll"] = "idle"
    /\ Len(audit) = 2
    /\ audit[1].state = "normal" /\ audit[1].response_triggered = "False"
    /\ audit[2].state = "ransomware detected"
    /\ enforce_count = 1 /\ alert_count = 1 /\ win.index = 1
    /\ response_triggered_flag


\* ------------------------------------------------- the simulation thread
\* GET /simulate_ransomware: threading.Thread(target=simulate_ransomware).start()
simulate_ransomware_endpoint ==
    /\ sim.pc = "none"
    /\ sim.calls < MaxSimCalls
    /\ sim' = [sim EXCEPT !.pc = "test", !.i = 0, !.ops = 0, !.calls = @ + 1]
    /\ UNCHANGED <<accVars, respVars, loopVars, baseVars, cycVars, pc, ret, now,
                   connected_clients, sampler, early, lost, regVars>>

\* if action_blocked: logging.info(...); return
sim_test ==
    /\ sim.pc = "test"
    /\ sim' = [sim EXCEPT !.blocked = action_blocked,
                          !.flag = response_triggered_flag,
                          !.pc = IF action_blocked THEN "none" ELSE "create"]
    /\ UNCHANGED <<accVars, respVars, loopVars, baseVars, cycVars, pc, ret, now,
                   connected_clients, sampler, early, lost, regVars>>

\* create_dummy_files(num_files=100): one file written per index
sim_create ==
    /\ sim.pc = "create"
    /\ sim' = [sim EXCEPT !.ops = @ + MaxSimFiles, !.total = @ + MaxSimFiles,
                          !.pc = "files"]
    /\ UNCHANGED <<accVars, respVars, loopVars, baseVars, cycVars, pc, ret, now,
                   connected_clients, sampler, early, lost, regVars>>

\* one iteration of for i in range(100): the file is rewritten, renamed and
\* deleted; after the last one the function returns
sim_file ==
    /\ sim.pc = "files"
    /\ sim' = [sim EXCEPT !.ops = @ + 3, !.total = @ + 3, !.i = @ + 1,
                          !.pc = IF sim.i + 1 = MaxSimFiles THEN "none" ELSE "files"]
    /\ UNCHANGED <<accVars, respVars, loopVars, baseVars, cycVars, pc, ret, now,
                   connected_clients, sampler, early, lost, regVars>>

simulate_ransomware == sim_test \/ sim_create \/ sim_file

\* the poll loop with simulations started beside it
NextLatch ==
    \/ periodic_display_with_baseline(ConcSnapshots, MaxLatchCycles)
    \/ simulate_ransomware_endpoint
    \/ simulate_ransomware
    \/ send_json
    \/ reset_start
    \/ reset_response_flag
    \/ Elapse

SpecLatch == Init /\ [][NextLatch]_vars

\* C24: action_blocked is False until the first trigger_response that finds
\* the flag clear, True from that call's assignment on, and no step sets it
\* back, the clear of the debounce flag after the cooldown included; a call
\* of simulate_ransomware that tests it after the first alert returns
\* without a file operation, also when the flag is clear again.
C24_LatchMonotonic ==
    /\ [](/\ win.index = 0 => ~action_blocked
          /\ (enforce_count >= 1 \/ alert_count >= 1) => action_blocked
          /\ ~action_blocked => \/ win.index = 0
                                \/ (win.index = 1 /\ pc["poll"] = "tr_latch")
          /\ (sim.blocked /\ sim.calls >= 1) => sim.ops = 0)
    /\ [][action_blocked => action_blocked']_vars
    /\ [][(sim.pc = "test" /\ sim' # sim /\ alert_count >= 1) =>
              sim'.pc = "none" /\ sim'.ops = 0 /\ sim'.total = sim.total]_vars

\* a simulation ran through its files before the first alert; the flag has
\* been cleared after the cooldown, the latch is still set, and a second
\* call, made with the flag clear, has returned without touching a file
C24_Witness ==
    /\ action_blocked
    /\ ~response_triggered_flag
    /\ cleared_at = COOLDOWN
    /\ sim.calls = 2 /\ sim.pc = "none"
    /\ sim.blocked /\ ~sim.flag
    /\ sim.ops = 0
    /\ sim.total = 4 * MaxSimFiles


\* ------------------------------------------- the on-demand cycle, threaded
\* GET /system_data is a plain def: the server runs it on a worker thread,
\* beside the event loop
web_cycle(S, max) ==
    /\ started["poll"] + started["web"] < max
    /\ collect_system_data("web", S)

\* return {"status": ..., "data": data}, or the error response of a cycle
\* that raised
http_return ==
    /\ pc["web"] \in {"http_return", "http_error"}
    /\ loop_queue' = Freeze(loop_queue, "web")
    /\ cycles' = [cycles EXCEPT !["web"] = IF pc["web"] = "http_return" THEN @ + 1 ELSE @]
    /\ pc' = [pc EXCEPT !["web"] = "idle"]
    /\ UNCHANGED <<data, sudden_anomaly, audit, started, fed>>
    /\ UNCHANGED <<sleeping, sent, last_msg>>
    /\ UNCHANGED <<accVars, respVars, baseVars, ret, now, connected_clients, auxVars>>

get_system_data(S, max) ==
    \/ web_cycle(S, max)
    \/ collect_and_predict("web")
    \/ trigger_response("web")
    \/ http_return

NextConc ==
    \/ periodic_display_with_baseline(ConcSnapshots, MaxConcCycles)
    \/ get_system_data(ConcSnapshots, MaxConcCycles)
    \/ send_json
    \/ reset_start
    \/ reset_response_flag
    \/ Elapse

SpecConc == Init /\ [][NextConc]_vars

\* C2: with signals from the poll cycle and from an on-demand cycle on
\* another thread, each debounce window has at most one enforcement action,
\* at most one alert publish and one reset timer, and the flag is never
\* cleared before COOLDOWN units have passed since it was set.
C2_DebounceConcurrent ==
    /\ win.enforce <= 1
    /\ win.alert <= 1
    /\ win.timers <= 1
    /\ ResetsPending <= 1
    /\ (~response_triggered_flag /\ cleared_at >= 0) => cleared_at >= flag_set_at + COOLDOWN

\* C7: no lost update: every assignment to baseline_stats was computed from
\* the mapping it replaces, so the baseline is the smoothing update applied
\* once per cycle, in the order of the assignments.
C7_NoLostUpdate ==
    /\ \A t \in Threads :
          pc[t] # "update_write" => last_update[t].old = last_update[t].found
    /\ \A key \in Features : baseline_stats[key].k = writes

\* C8: every step that changes baseline_stats replaces the whole mapping:
\* each feature gets the mean and the std of the update the writer computed
\* from the mapping it read, so no read can see a mixture.
WholeUpdate(t) ==
    /\ pc[t] = "update_write"
    /\ \A key \in Features :
          LET old == last_update[t].old[key]
              new == baseline_stats'[key]
              v == last_update[t].vals[key]
          IN new.k = old.k + 1 /\ MeanStep(old, new, v) /\ StdStep(old, new, v)

NextDrift ==
    \/ periodic_display_with_baseline(DriftSnapshots, MaxDriftCycles)
    \/ get_system_data(DriftSnapshots, MaxDriftCycles)
    \/ send_json
    \/ reset_start
    \/ reset_response_flag
    \/ Elapse

SpecDrift == Init /\ [][NextDrift]_vars

\* C18: in every cycle, also one that runs while a cycle on the other
\* thread assigns the baseline, the early check calls the dispatcher
\* exactly when the main detector of the same cycle sets detection = 1, and
\* the cycle's state is "ransomware detected" whenever the early check fired.
C18_EarlyMainAgree ==
    \A t \in Threads :
       data[t].ml_detection # -1 =>
          /\ early[t] <=> data[t].ml_detection = 1
          /\ early[t] => data[t].state = "ransomware detected"


\* --------------------------------------------------- subscriber registry
\* the handle is in connected_clients
Registered(c) == \E n \in 1..Len(connected_clients) : connected_clients[n] = c

\* connected_clients.remove(websocket): the first occurrence goes
RemoveClient(seq, c) ==
    IF \E n \in 1..Len(seq) : seq[n] = c
    THEN LET n == CHOOSE k \in 1..Len(seq) :
                     seq[k] = c /\ \A j \in 1..(k - 1) : seq[j] # c
         IN Remove(seq, n)
    ELSE seq

\* the endpoint coroutine of handle c resumes from asyncio.sleep(30)
PingJob(c) == [kind |-> "ping", client |-> c, type |-> "none", ref |-> "frozen",
               payload |-> NoData]

\* a connection comes in on /ws/alerts.  Wrong token: close(code=1008) and
\* HTTPException.  Right token: accept(), connected_clients.append(websocket),
\* the first keepalive, asyncio.sleep(30).
ws_connect(c) ==
    /\ LoopFree
    /\ ws[c].pc = "new"
    /\ \E token \in Tokens :
         IF token # "mysecrettoken"
         THEN /\ ws' = [ws EXCEPT ![c].pc = "rejected", ![c].token = token]
              /\ UNCHANGED connected_clients
         ELSE /\ ws' = [ws EXCEPT ![c].pc = "sleeping", ![c].token = token,
                                  ![c].wake = now + PING_INTERVAL]
              /\ connected_clients' = Append(connected_clients, c)
    /\ UNCHANGED <<accVars, respVars, loopVars, baseVars, cycVars, pc, ret, now,
                   sampler, early, lost, sim, walk>>

\* the peer of a subscribed handle goes away: from now on send_json on the
\* handle raises
peer_closes(c) ==
    /\ ws[c].pc \in {"sleeping", "ready"}
    /\ ws[c].open
    /\ ws' = [ws EXCEPT ![c].open = FALSE]
    /\ UNCHANGED <<accVars, respVars, loopVars, baseVars, cycVars, pc, ret, now,
                   connected_clients, sampler, early, lost, sim, walk>>

\* the 30 units of asyncio.sleep(30) are over: the loop schedules the
\* coroutine behind the callbacks that are ready
ws_due(c) ==
    /\ LoopFree
    /\ ws[c].pc = "sleeping"
    /\ ws[c].wake <= now
    /\ ws' = [ws EXCEPT ![c].pc = "ready"]
    /\ loop_queue' = Append(loop_queue, PingJob(c))
    /\ UNCHANGED <<sleeping, sent, last_msg>>
    /\ UNCHANGED <<accVars, respVars, baseVars, cycVars, pc, ret, now,
                   connected_clients, sampler, early, lost, sim, walk>>

\* await websocket.send_json({"type": "ping", ...}).  It returns: the
\* coroutine sleeps again.  It raises: except Exception logs the error, and
\* the log handler hands the record to notify_clients (every handle in the
\* list, this one included); finally removes the handle.
ws_ping ==
    /\ LoopFree
    /\ loop_queue # <<>>
    /\ Head(loop_queue).kind = "ping"
    /\ LET c == Head(loop_queue).client
       IN IF ws[c].open
          THEN /\ ws' = [ws EXCEPT ![c].pc = "sleeping", ![c].wake = now + PING_INTERVAL]
               /\ loop_queue' = Tail(loop_queue)
               /\ UNCHANGED connected_clients
          ELSE /\ ws' = [ws EXCEPT ![c].pc = "closed"]
               /\ loop_queue' = Tail(loop_queue) \o FanOut("live_tracking_log", "frozen", NoData)
               /\ connected_clients' = RemoveClient(connected_clients, c)
    /\ UNCHANGED <<sleeping, sent, last_msg>>
    /\ UNCHANGED <<accVars, respVars, baseVars, cycVars, pc, ret, now,
                   sampler, early, lost, sim, walk>>

websocket_alert_endpoint == ws_ping \/ \E c \in Clients : ws_connect(c) \/ ws_due(c)

\* notify_clients on the worker thread, the head of for client in
\* connected_clients: the list iterator yields the next handle, or the loop
\* is over
notify_clients_next(t) ==
    /\ pc[t] = "tr_notify"
    /\ IF walk.i < Len(connected_clients)
       THEN /\ walk' = [i |-> walk.i + 1, client |-> connected_clients[walk.i + 1]]
            /\ pc' = [pc EXCEPT ![t] = "tr_submit"]
            /\ UNCHANGED <<alert_count, win, call>>
       ELSE /\ walk' = NoWalk
            /\ alert_count' = alert_count + 1
            /\ win' = [win EXCEPT !.alert = @ + 1]
            /\ call' = [call EXCEPT ![t].published = @ + 1]
            /\ pc' = [pc EXCEPT ![t] = "tr_sched"]
    /\ UNCHANGED <<response_triggered_flag, action_blocked, enforce_count,
                   flag_set_at, cleared_at>>
    /\ UNCHANGED <<accVars, loopVars, baseVars, cycVars, ret, now, connected_clients,
                   sampler, early, lost, sim, ws>>

\* the body: asyncio.run_coroutine_threadsafe(client.send_json(alert_message), main_loop)
notify_clients_send(t) ==
    /\ pc[t] = "tr_submit"
    /\ loop_queue' = Append(loop_queue, SendJob(walk.client, "alert", t, NoData))
    /\ pc' = [pc EXCEPT ![t] = "tr_notify"]
    /\ UNCHANGED <<sleeping, sent, last_msg>>
    /\ UNCHANGED <<accVars, respVars, baseVars, cycVars, ret, now, connected_clients, auxVars>>

\* GET /system_data with the loop of notify_clients taken one handle at a time
get_system_data_walk(S, max) ==
    \/ web_cycle(S, max)
    \/ collect_and_predict("web")
    \/ tr_test("web") \/ tr_set("web") \/ tr_latch("web") \/ block_directory("web")
    \/ notify_clients_next("web") \/ notify_clients_send("web")
    \/ tr_sched("web")
    \/ http_return

\* the deadlines of the coroutines asleep on the loop
Deadlines ==
    {sleeping[n] : n \in 1..Len(sleeping)}
       \cup {ws[c].wake : c \in {h \in Clients : ws[h].pc = "sleeping"}}

\* time passes until the earliest timer of the loop is due
ws_elapse ==
    /\ LoopFree
    /\ loop_queue = <<>>
    /\ Deadlines # {}
    /\ \A d \in Deadlines : d > now
    /\ \E d \in Deadlines :
         /\ \A e \in Deadlines : d <= e
         /\ d <= MaxRegistryTime
         /\ now' = d
    /\ UNCHANGED <<accVars, respVars, loopVars, baseVars, cycVars, pc, ret,
                   connected_clients, auxVars>>

\* connections, keepalives and leaving peers beside the on-demand cycle,
\* over one keepalive period (no reset timer is due within it)
NextRegistry ==
    \/ get_system_data_walk(RegistrySnapshots, MaxRegistryCycles)
    \/ websocket_alert_endpoint
    \/ \E c \in Clients : peer_closes(c)
    \/ send_json /\ ws[Head(loop_queue).client].open
    \/ send_json_fails /\ ~ws[Head(loop_queue).client].open
    \/ reset_start
    \/ ws_elapse

SpecRegistry == InitRegistry /\ [][NextRegistry]_vars

\* send jobs for handle c waiting on the loop
Pending(c) ==
    Cardinality({n \in 1..Len(loop_queue) :
                    loop_queue[n].kind = "send" /\ loop_queue[n].client = c})

\* C21: a handle is in the registry only after a connection with the valid
\* token was accepted on it and before its endpoint has ended; a handle that
\* presented a wrong token is never in it; and a handle that is no longer in
\* the registry gets no publish attempt: no send is handed to the loop for
\* it and no send_json runs on it.
C21_RegistryLifecycle ==
    /\ [](\A c \in Clients :
            /\ Registered(c) => ws[c].token = "mysecrettoken"
                                /\ ws[c].pc \in {"sleeping", "ready"}
            /\ ws[c].pc \in {"new", "rejected", "closed"} => ~Registered(c))
    /\ [][\A c \in Clients :
            (\/ Pending(c)' > Pending(c)
             \/ sent'[c] # sent[c]
             \/ lost'[c] # lost[c]) => Registered(c)]_vars


\* ------------------------------------------------------ FileMonitorHandler
\* The watchdog observer thread delivers the events; each handler is one
\* test and one set.add.
Event(kind, src, dest, dir) ==
    [kind |-> kind, src_path |-> src, dest_path |-> dest, is_directory |-> dir]

Events == {Event("modified", "A", "", FALSE), Event("modified", "B", "", FALSE),
           Event("created", "A", "", FALSE), Event("created", "C", "", TRUE),
           Event("deleted", "A", "", FALSE), Event("deleted", "C", "", TRUE),
           Event("moved", "A", "C", FALSE), Event("moved", "B", "C", FALSE),
           Event("moved", "A", "B", TRUE)}

Files(c) == CASE c = "modified" -> modified_files
              [] c = "renamed" -> renamed_files
              [] c = "deleted" -> deleted_files

\* Recorded with on_moved recording the source path
Recorded_src(event) ==
    CASE event.kind = "modified" -> [cat |-> "modified", path |-> event.src_path]
      [] event.kind = "created" -> [cat |-> "modified", path |-> event.src_path]
      [] event.kind = "deleted" -> [cat |-> "deleted", path |-> event.src_path]
      [] event.kind = "moved" -> [cat |-> "renamed", path |-> event.src_path]

\* the category and the path a handler records
Recorded(event) ==
    CASE event.kind = "modified" -> [cat |-> "modified", path |-> event.src_path]
      [] event.kind = "created" -> [cat |-> "modified", path |-> event.src_path]
      [] event.kind = "deleted" -> [cat |-> "deleted", path |-> event.src_path]
      [] event.kind = "moved" -> [cat |-> "renamed", path |-> event.dest_path]

\* on_modified / on_created / on_deleted / on_moved
on_event ==
    /\ raced \/ Len(log) < MaxEvents
    /\ raced' = (raced \/ pc["poll"] # "idle")
    /\ \E event \in Events :
         LET r == Recorded(event)
             add(c) == IF ~event.is_directory /\ r.cat = c THEN {r.path} ELSE {}
         IN /\ modified_files' = modified_files \cup add("modified")
            /\ renamed_files' = renamed_files \cup add("renamed")
            /\ deleted_files' = deleted_files \cup add("deleted")
            /\ uncounted' = [c \in Categories |-> uncounted[c] \cup add(c)]
            /\ log' = IF raced' THEN <<>> ELSE Append(log, event)
    /\ UNCHANGED <<counts, dropped>>
    /\ UNCHANGED <<respVars, loopVars, baseVars, cycVars, pc, ret, now, connected_clients, auxVars>>

\* collect_system_data calls file_monitor_handler_global.get_file_event_counts()
drain_begin(t) ==
    /\ pc[t] = "idle"
    /\ pc' = [pc EXCEPT ![t] = "len_modified"]
    /\ dropped' = {}
    /\ UNCHANGED <<modified_files, renamed_files, deleted_files, counts, uncounted,
                   log, raced>>
    /\ UNCHANGED <<respVars, loopVars, baseVars, cycVars, ret, now, connected_clients, auxVars>>

NextLen(c) == CASE c = "modified" -> "len_renamed"
                [] c = "renamed" -> "len_deleted"
                [] c = "deleted" -> "clear_modified"
NextClear(c) == CASE c = "modified" -> "clear_renamed"
                  [] c = "renamed" -> "clear_deleted"
                  [] c = "deleted" -> "drain_return"

\* one entry of the counts dict: len(self.<c>_files)
drain_len(t, c) ==
    /\ pc[t] = "len_" \o c
    /\ counts' = [counts EXCEPT ![t][c] = Cardinality(Files(c))]
    /\ uncounted' = [uncounted EXCEPT ![c] = {}]
    /\ pc' = [pc EXCEPT ![t] = NextLen(c)]
    /\ UNCHANGED <<modified_files, renamed_files, deleted_files, dropped, log, raced>>
    /\ UNCHANGED <<respVars, loopVars, baseVars, cycVars, ret, now, connected_clients, auxVars>>

\* self.<c>_files.clear()
drain_clear(t, c) ==
    /\ pc[t] = "clear_" \o c
    /\ modified_files' = IF c = "modified" THEN {} ELSE modified_files
    /\ renamed_files' = IF c = "renamed" THEN {} ELSE renamed_files
    /\ deleted_files' = IF c = "deleted" THEN {} ELSE deleted_files
    /\ dropped' = dropped \cup {<<c, path>> : path \in Files(c) \cap uncounted[c]}
    /\ uncounted' = [uncounted EXCEPT ![c] = @ \ Files(c)]
    /\ pc' = [pc EXCEPT ![t] = NextClear(c)]
    /\ UNCHANGED <<counts, log, raced>>
    /\ UNCHANGED <<respVars, loopVars, baseVars, cycVars, ret, now, connected_clients, auxVars>>

\* return counts
drain_return(t) ==
    /\ pc[t] = "drain_return"
    /\ log' = <<>>
    /\ counts' = [counts EXCEPT ![t] = [c \in Categories |-> 0]]
    /\ pc' = [pc EXCEPT ![t] = "idle"]
    /\ UNCHANGED <<modified_files, renamed_files, deleted_files, uncounted,
                   dropped, raced>>
    /\ UNCHANGED <<respVars, loopVars, baseVars, cycVars, ret, now, connected_clients, auxVars>>

get_file_event_counts(t) ==
    \/ drain_begin(t)
    \/ \E c \in Categories : drain_len(t, c) \/ drain_clear(t, c)
    \/ drain_return(t)

NextAcc ==
    \/ on_event
    \/ get_file_event_counts("poll")

SpecAcc == Init /\ [][NextAcc]_vars

\* C3: with callbacks interleaved with a drain, no recorded path is lost (a
\* path recorded and not yet counted is still in its set) and none is
\* counted again by the next drain.
C3_DrainAtomic ==
    /\ dropped = {}
    /\ \A c \in Categories : uncounted[c] \subseteq Files(c)
    /\ \A c \in Categories : pc["poll"] = "len_" \o c => Files(c) \subseteq uncounted[c]

\* the distinct non-directory paths the events of a log put in category c
KindsOf(c) == CASE c = "modified" -> {"modified", "created"}
                [] c = "renamed" -> {"moved"}
                [] c = "deleted" -> {"deleted"}
PathOf(event) == IF event.kind = "moved" THEN event.dest_path ELSE event.src_path
DistinctPaths(events, c) ==
    {PathOf(events[n]) : n \in {m \in 1..Len(events) :
                                  /\ events[m].kind \in KindsOf(c)
                                  /\ ~events[m].is_directory}}

\* C4: when no callback runs during a drain, the drain returns for each
\* category the number of distinct non-directory paths recorded since the
\* previous drain (create and modify under modified, a rename under its
\* destination), so 0 for all three right after a drain.
C4_Coalescing ==
    (pc["poll"] = "drain_return" /\ ~raced) =>
       /\ \A c \in Categories : counts["poll"][c] = Cardinality(DistinctPaths(log, c))
       /\ log = <<>> => \A c \in Categories : counts["poll"][c] = 0
       /\ modified_files = {} /\ renamed_files = {} /\ deleted_files = {}

\* modify(A), modify(A), modify(B), then the drain: modified = 2
C4_Witness ==
    /\ pc["poll"] = "drain_return"
    /\ ~raced
    /\ log = <<Event("modified", "A", "", FALSE), Event("modified", "A", "", FALSE),
               Event("modified", "B", "", FALSE)>>
    /\ counts["poll"]["modified"] = 2


\* ------------------------------------------- the drains of two cycles
\* collect_system_data drains the accumulator first (line 321), in the poll
\* loop's cycle and in the cycle GET /system_data runs on a worker thread
\* (the callbacks that interleave with a drain are those of SpecAcc; here
\* the watcher delivers its events between the drains)
NextDrain ==
    \/ on_event /\ \A t \in Threads : pc[t] = "idle"
    \/ get_file_event_counts("poll")
    \/ get_file_event_counts("web")

SpecDrain == Init /\ [][NextDrain]_vars

\* C16: at most one cycle executes at a time, and an on-demand cycle takes
\* no recorded path away from the poll loop: the accumulator is drained by
\* the poll cycle only, so every recorded path is counted in the snapshot of
\* the next poll cycle.
C16_OneDrainPerCycle ==
    /\ ~(pc["poll"] # "idle" /\ pc["web"] # "idle")
    /\ pc["web"] = "drain_return" => \A c \in Categories : counts["web"][c] = 0

\* ------------------------------------------------- robust_average, the call
\* robust_average(func, samples, ...): vals = []
robust_average_begin ==
    /\ sampler.pc = "idle"
    /\ \E samples \in SampleCounts :
         sampler' = [NewSampler EXCEPT !.pc = "loop", !.samples = samples]
    /\ UNCHANGED <<accVars, respVars, loopVars, baseVars, cycVars, pc, ret, now,
                   connected_clients, early, lost, envVars>>

\* one iteration of for _ in range(samples): v = func(); vals.append(v), or
\* the except branch
sample ==
    /\ sampler.pc = "loop"
    /\ Len(sampler.calls) < sampler.samples
    /\ \E outcome \in Outcomes :
         sampler' = [sampler EXCEPT !.calls = Append(@, outcome),
                                    !.vals = IF outcome.ok THEN Append(@, outcome.v)
                                             ELSE @]
    /\ UNCHANGED <<accVars, respVars, loopVars, baseVars, cycVars, pc, ret, now,
                   connected_clients, early, lost, envVars>>

\* the loop is over: if not vals: return None ... return sum / len or median
robust_average_return ==
    /\ sampler.pc = "loop"
    /\ Len(sampler.calls) = sampler.samples
    /\ sampler' = [sampler EXCEPT !.pc = "done", !.result = robust_result(sampler.vals)]
    /\ UNCHANGED <<accVars, respVars, loopVars, baseVars, cycVars, pc, ret, now,
                   connected_clients, early, lost, envVars>>

robust_average == robust_average_begin \/ sample \/ robust_average_return

NextSampler == robust_average

SpecSampler == Init /\ [][NextSampler]_vars

\* the values of the invocations that returned, in order
Successes(calls) ==
    LET ok == SelectSeq(calls, LAMBDA o : o.ok)
    IN [n \in 1..Len(ok) |-> ok[n].v]

\* the k-th smallest element of a non-empty sequence
KthSmallest(seq, k) ==
    CHOOSE v \in {seq[n] : n \in 1..Len(seq)} :
        /\ Cardinality({n \in 1..Len(seq) : seq[n] < v}) < k
        /\ Cardinality({n \in 1..Len(seq) : seq[n] <= v}) >= k

\* twice the median
TwiceMedian(seq) ==
    LET n == Len(seq)
    IN IF n % 2 = 1 THEN 2 * KthSmallest(seq, (n + 1) \div 2)
       ELSE KthSmallest(seq, n \div 2) + KthSmallest(seq, n \div 2 + 1)

\* positions whose value is within 20% of the median
Within20(seq) ==
    LET m2 == TwiceMedian(seq)
    IN {n \in 1..Len(seq) : 5 * Abs(2 * seq[n] - m2) <= Abs(m2)}

RECURSIVE SumAt(_, _)
SumAt(seq, positions) ==
    IF positions = {} THEN 0
    ELSE LET n == CHOOSE m \in positions : TRUE
         IN seq[n] + SumAt(seq, positions \ {n})

\* C17: robust_average invokes the source exactly samples times and skips
\* the invocations that raise; it returns None when all fail, 0 when the
\* median of the successful samples is 0, else the mean of the successful
\* samples within 20% of the median, or the median when none is; so a
\* constant source c gives c, [10,10,10,10,1000] gives 10, and the result
\* depends on the successful invocations only.
C17_RobustSampler ==
    sampler.pc = "done" =>
       LET ok == Successes(sampler.calls)
           r == sampler.result
       IN /\ Len(sampler.calls) = sampler.samples
          /\ sampler.vals = ok
          /\ r.none <=> ok = <<>>
          /\ ok # <<>> =>
               LET m2 == TwiceMedian(ok)
                   F == Within20(ok)
               IN /\ m2 = 0 => r.num = 0
                  /\ (m2 # 0 /\ F # {}) => r.num * Cardinality(F) = r.den * SumAt(ok, F)
                  /\ (m2 # 0 /\ F = {}) => 2 * r.num = r.den * m2
          /\ \A c \in SourceValues :
               (ok # <<>> /\ \A n \in 1..Len(ok) : ok[n] = c) => r.num = c * r.den
          /\ ok = <<10, 10, 10, 10, 1000>> => r.num = 10 * r.den

\* one invocation raised, 1000 is filtered out, the rest is averaged
C17_Witness ==
    /\ sampler.pc = "done"
    /\ sampler.calls = <<Returned(10), Raised, Returned(10), Returned(12), Returned(1000)>>
    /\ sampler.result = Rat(32, 3)

====
